---- MODULE Spec2Model ----
(***************************************************************************)
(* The Streamlit script app.py as a state machine.  One session: the       *)
(* uploader widget keeps the uploaded file across reruns, every user       *)
(* action (upload, remove, click Predict, click Download) reruns the       *)
(* script from its first line, and the script's statements are the steps   *)
(* of a run.  The model artifact air_quality_model.pkl is a file on disk   *)
(* that the environment may replace between runs.                          *)
(***************************************************************************)
EXTENDS Integers, Sequences, FiniteSets, TLC

VARIABLES uploaded, artifact, pc, clicked, data, model, features,
          predictions, invocations, ui, outcome, cause, csv, parsed, prev

vars == <<uploaded, artifact, pc, clicked, data, model, features,
          predictions, invocations, ui, outcome, cause, csv, parsed, prev>>

(***************************************************************************)
(* Bounds of the input domain.                                             *)
(***************************************************************************)
MaxRows == 2

(***************************************************************************)
(* CSV text, one field at a time.  A field is the lexeme between two       *)
(* delimiters: a decimal integer literal ("30"), a decimal literal with a  *)
(* fraction ("30.0"), a text that is no number ("x"), the empty field, or  *)
(* the quoted empty field ("").                                            *)
(***************************************************************************)
Num(n) == [k |-> "num", v |-> n]
Dec(n) == [k |-> "dec", v |-> n]
Txt(i) == [k |-> "txt", v |-> i]
Empty == [k |-> "empty", v |-> 0]
QEmpty == [k |-> "qempty", v |-> 0]

(* Cells of a dataframe: int64, float64 (n stands for n.0), NaN, and the   *)
(* Python strings an object column keeps (the lexeme as it was read).      *)
IntV(n) == [t |-> "int", v |-> n]
FloatV(n) == [t |-> "float", v |-> n]
NaN == [t |-> "nan", v |-> 0]
StrV(tok) == [t |-> IF tok.k = "num" THEN "strint"
                    ELSE IF tok.k = "dec" THEN "strfloat" ELSE "str",
              v |-> tok.v]
(* A value the predictor returned that no CSV encoding exists for.         *)
BadV == [t |-> "bad", v |-> 0]

NoFile == [kind |-> "none", header |-> <<>>, rows |-> <<>>]
Malformed == [kind |-> "malformed", header |-> <<>>, rows |-> <<>>]
CsvFile(h, r) == [kind |-> "csv", header |-> h, rows |-> r]

NoTable == [cols |-> <<>>, rows |-> <<>>, present |-> FALSE]
Table(c, r) == [cols |-> c, rows |-> r, present |-> TRUE]

Range(s) == {s[i] : i \in DOMAIN s}

IndexOf(s, x) == CHOOSE i \in DOMAIN s : s[i] = x

(***************************************************************************)
(* pd.read_csv with its defaults: the first line is the header, lines that *)
(* are entirely blank are skipped, the empty field is a missing value, and *)
(* each column gets one dtype inferred from all of its fields.             *)
(***************************************************************************)
IsMissing(tok) == tok.k \in {"empty", "qempty"}

BlankLine(r) == Len(r) = 1 /\ r[1] = Empty

NotBlankLine(r) == ~BlankLine(r)

ColumnDtype(rows, j) ==
    LET toks == {rows[i][j] : i \in DOMAIN rows}
    IN IF \A tok \in toks : tok.k = "num" THEN "int64"
       ELSE IF \A tok \in toks : tok.k \in {"num", "dec"} \/ IsMissing(tok)
            THEN "float64"
            ELSE "object"

ParseCell(tok, dtype) ==
    IF IsMissing(tok) THEN NaN
    ELSE IF dtype = "int64" THEN IntV(tok.v)
    ELSE IF dtype = "float64" THEN FloatV(tok.v)
    ELSE StrV(tok)

ReadCsv(file) ==
    LET kept == SelectSeq(file.rows, NotBlankLine)
    IN Table(file.header,
             [i \in DOMAIN kept |->
                [j \in DOMAIN file.header |->
                    ParseCell(kept[i][j], ColumnDtype(kept, j))]])

(* A drop by position instead of by label: the first column goes. *)
DropFirst(table, name) ==
    LET keep == SelectSeq([i \in DOMAIN table.cols |-> i], LAMBDA i : i # 1)
    IN Table([j \in DOMAIN keep |-> table.cols[keep[j]]],
             [i \in DOMAIN table.rows |->
                [j \in DOMAIN keep |-> table.rows[i][keep[j]]]])

(***************************************************************************)
(* DataFrame.drop(columns=[name], errors='ignore'): a new frame without    *)
(* the columns labelled name, the others in their order; no error when no  *)
(* column has that label.                                                  *)
(***************************************************************************)
KeptIdx(cols, name) ==
    SelectSeq([i \in DOMAIN cols |-> i], LAMBDA i : cols[i] # name)

Drop(table, name) ==
    LET keep == KeptIdx(table.cols, name)
    IN Table([j \in DOMAIN keep |-> table.cols[keep[j]]],
             [i \in DOMAIN table.rows |->
                [j \in DOMAIN keep |-> table.rows[i][keep[j]]]])

(***************************************************************************)
(* data[name] = values: the column labelled name is replaced in place when *)
(* the frame has one, and appended as the last column otherwise.  The      *)
(* caller has checked that there is one value per row.                     *)
(***************************************************************************)
SetColumn(table, name, values) ==
    IF name \in Range(table.cols)
    THEN Table(table.cols,
               [i \in DOMAIN table.rows |->
                  [j \in DOMAIN table.cols |->
                     IF table.cols[j] = name THEN values[i]
                     ELSE table.rows[i][j]]])
    ELSE Table(Append(table.cols, name),
               [i \in DOMAIN table.rows |-> Append(table.rows[i], values[i])])

(***************************************************************************)
(* DataFrame.to_csv(index=False).encode('utf-8'): a header line with the   *)
(* column labels, then one line per row and no index field; int64 as its   *)
(* digits, float64 by repr, NaN as the empty field, a string as itself.    *)
(* The csv writer quotes the empty field of a one-field line.              *)
(***************************************************************************)
FormatCell(cell, ncols) ==
    IF cell.t = "int" THEN Num(cell.v)
    ELSE IF cell.t = "float" THEN Dec(cell.v)
    ELSE IF cell.t = "nan" THEN (IF ncols = 1 THEN QEmpty ELSE Empty)
    ELSE IF cell.t = "strint" THEN Num(cell.v)
    ELSE IF cell.t = "strfloat" THEN Dec(cell.v)
    ELSE Txt(cell.v)

Encodable(table) ==
    \A i \in DOMAIN table.rows : \A j \in DOMAIN table.cols :
        table.rows[i][j].t # "bad"

ToCsv(table) ==
    CsvFile(table.cols,
            [i \in DOMAIN table.rows |->
               [j \in DOMAIN table.cols |->
                  FormatCell(table.rows[i][j], Len(table.cols))]])

(***************************************************************************)
(* The predictor is whatever object the artifact unpickles to.  Four       *)
(* deterministic predictors stand for it:                                  *)
(*   "sum"    PM2.5 + PM10 per row; it validates its input the way a       *)
(*            fitted regressor does (exactly its two features, at least    *)
(*            one row, numeric cells without NaN) and raises otherwise;    *)
(*   "total"  the sum of the numeric cells of each row, whatever the       *)
(*            columns are; it raises on a string cell;                     *)
(*   "extra"  one value more than there are rows;                          *)
(*   "opaque" one value per row that cannot be encoded as text.            *)
(***************************************************************************)
Predictors == {"sum", "total", "extra", "opaque"}

Numeric(cell) == cell.t \in {"int", "float"}

RECURSIVE SumCells(_)
SumCells(row) ==
    IF row = <<>> THEN 0
    ELSE (IF Numeric(Head(row)) THEN Head(row).v ELSE 0) + SumCells(Tail(row))

Raised(msg) == [ok |-> FALSE, out |-> <<>>, cause |-> msg]
Returned(out) == [ok |-> TRUE, out |-> out, cause |-> ""]

PredictSum(X) ==
    IF Range(X.cols) # {"PM2.5", "PM10"} \/ Len(X.cols) # 2
        THEN Raised("feature names mismatch")
    ELSE IF Len(X.rows) = 0 THEN Raised("0 samples")
    ELSE IF \E i \in DOMAIN X.rows : \E j \in DOMAIN X.cols :
                ~Numeric(X.rows[i][j])
        THEN Raised("could not convert to float")
    ELSE Returned([i \in DOMAIN X.rows |-> FloatV(SumCells(X.rows[i]))])

PredictTotal(X) ==
    IF \E i \in DOMAIN X.rows : \E j \in DOMAIN X.cols :
            X.rows[i][j].t \in {"str", "strint", "strfloat"}
        THEN Raised("could not convert to float")
    ELSE Returned([i \in DOMAIN X.rows |-> FloatV(SumCells(X.rows[i]))])

PredictExtra(X) == Returned([i \in 1..(Len(X.rows) + 1) |-> FloatV(0)])

PredictOpaque(X) == Returned([i \in DOMAIN X.rows |-> BadV])

Predict(m, X) ==
    IF m = "sum" THEN PredictSum(X)
    ELSE IF m = "total" THEN PredictTotal(X)
    ELSE IF m = "extra" THEN PredictExtra(X)
    ELSE PredictOpaque(X)

(***************************************************************************)
(* The uploads of the model: a file that is not delimited text, the CSV of *)
(* the worked example, and every CSV of up to MaxRows lines under each of  *)
(* the headers below, with fields drawn from Fields.                       *)
(***************************************************************************)
Headers == { <<"PM2.5", "PM10">>, <<"PM2.5", "AQI">>,
             <<"Predicted_AQI", "PM10">>, <<"PM10">>, <<"AQI">> }

(* The fields a line may hold: any field in a one-column file; otherwise   *)
(* an integer in the first column and an integer, a text or nothing in     *)
(* the others.                                                             *)
Fields == {Num(1), Num(2), Txt(1), Empty, QEmpty}

FieldsAt(h, j) ==
    IF Len(h) = 1 THEN Fields
    ELSE IF j = 1 THEN {Num(1), Num(2)}
    ELSE {Num(1), Txt(1), Empty}

LinesOf(h) == {r \in [1..Len(h) -> Fields] : \A j \in 1..Len(h) : r[j] \in FieldsAt(h, j)}

Lines(h) == UNION {[1..n -> LinesOf(h)] : n \in 0..MaxRows}

ExampleCsv ==
    CsvFile(<<"AQI", "PM2.5", "PM10">>,
            << <<Num(100), Num(30), Num(40)>>, <<Num(200), Num(50), Num(60)>> >>)

Uploads == {Malformed, ExampleCsv}
             \cup UNION {{CsvFile(h, r) : r \in Lines(h)} : h \in Headers}

(* What joblib.load finds at the artifact's path. *)
Artifacts == {"missing", "corrupt"} \cup Predictors

(* What the first successful prediction on the current upload, with the    *)
(* current artifact, was given and showed (a record of the past: the       *)
(* script reads none of it), and whether it has been repeated since.       *)
NoPrev == [times |-> "never", features |-> NoTable, result |-> NoTable]

(***************************************************************************)
(* The session starts with the page loaded once and nothing uploaded: the  *)
(* script ran to line 13 and ended there.                                  *)
(***************************************************************************)
Init ==
    /\ uploaded = NoFile
    /\ artifact \in Artifacts
    /\ pc = "idle"
    /\ clicked = FALSE
    /\ data = NoTable
    /\ model = "unbound"
    /\ features = NoTable
    /\ predictions = <<>>
    /\ invocations = <<>>
    /\ ui = <<"uploader">>
    /\ outcome = "done"
    /\ cause = ""
    /\ csv = NoFile
    /\ parsed = NoTable
    /\ prev = NoPrev

(* A rerun: the script starts over with a fresh namespace and an empty     *)
(* page; the button reads TRUE only in the run its click started.          *)
Rerun(click) ==
    /\ pc' = "uploader"
    /\ clicked' = click
    /\ data' = NoTable
    /\ model' = "unbound"
    /\ features' = NoTable
    /\ predictions' = <<>>
    /\ invocations' = <<>>
    /\ ui' = <<>>
    /\ outcome' = "running"
    /\ cause' = ""
    /\ csv' = NoFile
    /\ parsed' = NoTable

(* The run ends: normally, by st.stop(), or by an exception no handler of  *)
(* the script caught (Streamlit then prints the traceback on the page).    *)
Ends(how) ==
    /\ pc' = "idle"
    /\ outcome' = how

(***************************************************************************)
(* User actions, each between two runs.  The uploader holds one file; to   *)
(* replace it the user removes it and uploads another.                     *)
(***************************************************************************)
Upload ==
    /\ pc = "idle"
    /\ uploaded = NoFile
    /\ \E f \in Uploads : uploaded' = f
    /\ prev' = NoPrev
    /\ Rerun(FALSE)
    /\ UNCHANGED artifact

RemoveUpload ==
    /\ pc = "idle"
    /\ uploaded # NoFile
    /\ uploaded' = NoFile
    /\ prev' = NoPrev
    /\ Rerun(FALSE)
    /\ UNCHANGED artifact

ClickPredict ==
    /\ pc = "idle"
    /\ "button" \in Range(ui)
    /\ Rerun(TRUE)
    /\ UNCHANGED <<uploaded, artifact, prev>>

ClickDownload ==
    /\ pc = "idle"
    /\ "download" \in Range(ui)
    /\ Rerun(FALSE)
    /\ UNCHANGED <<uploaded, artifact, prev>>

(* The environment replaces, removes or damages the artifact on disk. *)
ReplaceArtifact ==
    /\ pc = "idle"
    /\ \E a \in Artifacts : a # artifact /\ artifact' = a
    /\ prev' = NoPrev
    /\ UNCHANGED <<uploaded, pc, clicked, data, model, features, predictions,
                   invocations, ui, outcome, cause, csv, parsed>>

(***************************************************************************)
(* The statements of the script.                                           *)
(***************************************************************************)
(* uploaded_file = st.file_uploader(...); if uploaded_file: *)
Uploader ==
    /\ pc = "uploader"
    /\ ui' = Append(ui, "uploader")
    /\ IF uploaded = NoFile
       THEN Ends("done")
       ELSE pc' = "read" /\ UNCHANGED outcome
    /\ UNCHANGED <<uploaded, artifact, clicked, data, model, features,
                   predictions, invocations, cause, csv, parsed, prev>>

(* The frame of the previous run handed out again instead of a fresh     *)
(* parse, as a cache that returns its object by reference would.         *)
ReadStepShared ==
    /\ pc = "read"
    /\ IF uploaded.kind = "malformed"
       THEN /\ Ends("exception")
            /\ cause' = "ParserError"
            /\ ui' = Append(ui, "traceback")
            /\ UNCHANGED <<data, parsed>>
       ELSE /\ data' = IF prev.times = "never" THEN ReadCsv(uploaded)
                       ELSE prev.result
            /\ parsed' = ReadCsv(uploaded)
            /\ pc' = "preview"
            /\ UNCHANGED <<outcome, cause, ui>>
    /\ UNCHANGED <<uploaded, artifact, clicked, model, features, predictions,
                   invocations, csv, prev>>

(* data = pd.read_csv(uploaded_file), outside any try.  Each rerun the     *)
(* uploader hands the script the file positioned at its start, so every    *)
(* run parses the whole upload again.                                      *)
ReadStep ==
    /\ pc = "read"
    /\ IF uploaded.kind = "malformed"
       THEN /\ Ends("exception")
            /\ cause' = "ParserError"
            /\ ui' = Append(ui, "traceback")
            /\ UNCHANGED <<data, parsed>>
       ELSE /\ data' = ReadCsv(uploaded)
            /\ parsed' = ReadCsv(uploaded)
            /\ pc' = "preview"
            /\ UNCHANGED <<outcome, cause, ui>>
    /\ UNCHANGED <<uploaded, artifact, clicked, model, features, predictions,
                   invocations, csv, prev>>

(* st.subheader("Input Data Preview"); st.write(data.head()) *)
Preview ==
    /\ pc = "preview"
    /\ ui' = Append(ui, "preview")
    /\ pc' = "load"
    /\ UNCHANGED <<uploaded, artifact, clicked, data, model, features,
                   predictions, invocations, outcome, cause, csv, parsed, prev>>

(* The handler without its st.stop(): the error is shown and the script  *)
(* goes on.                                                              *)
LoadModelNoStop ==
    /\ pc = "load"
    /\ IF artifact = "missing"
       THEN /\ ui' = Append(ui, "model_error")
            /\ pc' = "button"
            /\ UNCHANGED <<model, cause, outcome>>
       ELSE IF artifact = "corrupt"
       THEN /\ ui' = Append(ui, "traceback")
            /\ cause' = "UnpicklingError"
            /\ Ends("exception")
            /\ UNCHANGED model
       ELSE /\ model' = artifact
            /\ pc' = "button"
            /\ UNCHANGED <<ui, outcome, cause>>
    /\ UNCHANGED <<uploaded, artifact, clicked, data, features, predictions,
                   invocations, csv, parsed, prev>>

(* try: model = joblib.load(...)  except FileNotFoundError: st.error; st.stop *)
LoadModel ==
    /\ pc = "load"
    /\ IF artifact = "missing"
       THEN /\ ui' = Append(ui, "model_error")
            /\ Ends("stopped")
            /\ UNCHANGED <<model, cause>>
       ELSE IF artifact = "corrupt"
       THEN /\ ui' = Append(ui, "traceback")
            /\ cause' = "UnpicklingError"
            /\ Ends("exception")
            /\ UNCHANGED model
       ELSE /\ model' = artifact
            /\ pc' = "button"
            /\ UNCHANGED <<ui, outcome, cause>>
    /\ UNCHANGED <<uploaded, artifact, clicked, data, features, predictions,
                   invocations, csv, parsed, prev>>

(* The prediction block outside the if: it runs on every rerun. *)
ButtonAlways ==
    /\ pc = "button"
    /\ ui' = Append(ui, "button")
    /\ pc' = "drop"
    /\ UNCHANGED <<uploaded, artifact, clicked, data, model, features,
                   predictions, invocations, outcome, cause, csv, parsed, prev>>

(* if st.button("Predict AQI"): *)
Button ==
    /\ pc = "button"
    /\ ui' = Append(ui, "button")
    /\ IF clicked
       THEN pc' = "drop" /\ UNCHANGED outcome
       ELSE Ends("done")
    /\ UNCHANGED <<uploaded, artifact, clicked, data, model, features,
                   predictions, invocations, cause, csv, parsed, prev>>

(* except Exception as e: st.error(f"Prediction failed: {e}") *)
Handler(e) ==
    /\ ui' = Append(ui, "prediction_error")
    /\ cause' = e
    /\ Ends("done")

(* features = data.drop(columns=["AQI"], errors='ignore') *)
DropStep ==
    /\ pc = "drop"
    /\ features' = Drop(data, "AQI")
    /\ pc' = "predict"
    /\ UNCHANGED <<uploaded, artifact, clicked, data, model, predictions,
                   invocations, ui, outcome, cause, csv, parsed, prev>>

(* predictions = model.predict(features) *)
PredictStep ==
    /\ pc = "predict"
    /\ invocations' = Append(invocations, features)
    /\ LET r == Predict(model, features)
       IN IF r.ok
          THEN /\ predictions' = r.out
               /\ pc' = "assign"
               /\ UNCHANGED <<ui, outcome, cause>>
          ELSE /\ Handler(r.cause)
               /\ UNCHANGED predictions
    /\ UNCHANGED <<uploaded, artifact, clicked, data, model, features, csv,
                   parsed, prev>>

(* An assignment that takes the values it has room for instead of        *)
(* refusing a sequence of the wrong length.                              *)
AssignStepTruncate ==
    /\ pc = "assign"
    /\ data' = SetColumn(data, "Predicted_AQI", predictions)
    /\ pc' = "render"
    /\ UNCHANGED <<uploaded, artifact, clicked, model, features, predictions,
                   invocations, csv, parsed, prev, ui, outcome, cause>>

(* data["Predicted_AQI"] = predictions *)
AssignStep ==
    /\ pc = "assign"
    /\ IF Len(predictions) # Len(data.rows)
       THEN /\ Handler("Length of values does not match length of index")
            /\ UNCHANGED data
       ELSE /\ data' = SetColumn(data, "Predicted_AQI", predictions)
            /\ pc' = "render"
            /\ UNCHANGED <<ui, outcome, cause>>
    /\ UNCHANGED <<uploaded, artifact, clicked, model, features, predictions,
                   invocations, csv, parsed, prev>>

(* st.subheader("Prediction Results"); st.write(data).  Whether the page   *)
(* can show a cell that has no text encoding is the front end's business:  *)
(* both outcomes are kept.                                                 *)
Render ==
    /\ pc = "render"
    /\ \/ /\ ui' = Append(ui, "results")
          /\ pc' = "export"
          /\ prev' = IF prev.times = "never"
                     THEN [times |-> "once", features |-> features,
                           result |-> data]
                     ELSE [prev EXCEPT !.times = "repeated"]
          /\ UNCHANGED <<outcome, cause>>
       \/ /\ ~Encodable(data)
          /\ Handler("cannot serialize the frame")
          /\ UNCHANGED prev
    /\ UNCHANGED <<uploaded, artifact, clicked, data, model, features,
                   predictions, invocations, csv, parsed>>

(* csv = data.to_csv(index=False).encode('utf-8') *)
Export ==
    /\ pc = "export"
    /\ IF Encodable(data)
       THEN /\ csv' = ToCsv(data)
            /\ pc' = "offer"
            /\ UNCHANGED <<ui, outcome, cause>>
       ELSE /\ Handler("UnicodeEncodeError")
            /\ UNCHANGED csv
    /\ UNCHANGED <<uploaded, artifact, clicked, data, model, features,
                   predictions, invocations, parsed, prev>>

(* st.download_button("Download Results as CSV", data=csv, ...) *)
Offer ==
    /\ pc = "offer"
    /\ ui' = Append(ui, "download")
    /\ Ends("done")
    /\ UNCHANGED <<uploaded, artifact, clicked, data, model, features,
                   predictions, invocations, cause, csv, parsed, prev>>

Next ==
    \/ Upload
    \/ RemoveUpload
    \/ ClickPredict
    \/ ClickDownload
    \/ ReplaceArtifact
    \/ Uploader
    \/ ReadStep
    \/ Preview
    \/ LoadModel
    \/ Button
    \/ DropStep
    \/ PredictStep
    \/ AssignStep
    \/ Render
    \/ Export
    \/ Offer

Spec == Init /\ [][Next]_vars

(***************************************************************************)
(* Vocabulary of the properties.                                           *)
(***************************************************************************)
Shown(e) == e \in Range(ui)

Pos(e) == IndexOf(ui, e)

HasColumn(table, name) == name \in Range(table.cols)

Column(table, name) ==
    [i \in DOMAIN table.rows |-> table.rows[i][IndexOf(table.cols, name)]]

(* The messages the script shows with st.error. *)
InlineErrors == {"model_error", "prediction_error"}

(* The predictor has been called in this run. *)
Invoked ==
    \/ pc \in {"assign", "render", "export", "offer"}
    \/ pc = "idle" /\ clicked /\ Shown("button")

(* Line 30 has assigned the predictions in this run. *)
Assigned == pc \in {"render", "export", "offer"} \/ Shown("results")

(***************************************************************************)
(* C1.  When loading the artifact raises FileNotFoundError, that step      *)
(* shows the model error and ends the run there: the predictor was not     *)
(* invoked in the run, the table is as it was read (no Predicted_AQI       *)
(* added), and the page has no button, no result table and no download,    *)
(* whether or not the run was started by a click on Predict.               *)
(***************************************************************************)
C1_MissingModelHalts ==
    [][(pc = "load" /\ artifact = "missing") =>
          /\ ui' = Append(ui, "model_error")
          /\ pc' = "idle"
          /\ outcome' = "stopped"
          /\ invocations' = <<>>
          /\ data' = parsed'
          /\ csv' = NoFile
          /\ \A e \in {"button", "results", "download"} : e \notin Range(ui')
      ]_vars

C1_Witness ==
    /\ pc = "idle"
    /\ outcome = "stopped"
    /\ clicked
    /\ artifact = "missing"
    /\ Shown("model_error")

C3_ParseErrorCaught ==
    (pc = "idle" /\ uploaded.kind = "malformed") =>
        /\ outcome # "exception"
        /\ ~Shown("traceback")
        /\ \E e \in InlineErrors : Shown(e)
        /\ ~data.present

(***************************************************************************)
(* C4.  A run in which the artifact failed to deserialize ends as a run    *)
(* with a missing artifact does: the model error is shown inline, the run  *)
(* is stopped, the predictor was not invoked and no exception left the     *)
(* script uncaught.                                                        *)
(***************************************************************************)
C4_CorruptHandledLikeMissing ==
    (pc = "idle" /\ cause = "UnpicklingError") =>
        /\ Shown("model_error")
        /\ outcome = "stopped"
        /\ ~Shown("traceback")
        /\ invocations = <<>>

(***************************************************************************)
(* C5.  The rendered result table has as many rows as the table that was   *)
(* read, and its row i carries every cell of input row i.                  *)
(***************************************************************************)
C5_RowsAligned ==
    Shown("results") =>
        /\ Len(data.rows) = Len(parsed.rows)
        /\ Range(parsed.cols) \subseteq Range(data.cols)
        /\ \A i \in DOMAIN parsed.rows : \A j \in DOMAIN parsed.cols :
              Column(data, parsed.cols[j])[i] = parsed.rows[i][j]

(***************************************************************************)
(* C6.  The rendered result table has the input's columns and              *)
(* Predicted_AQI, every input column (AQI included) with the values that   *)
(* were read; and a table without AQI reaches the predictor whole.         *)
(***************************************************************************)
C6_ColumnsKept ==
    /\ Shown("results") =>
          /\ Range(data.cols) = Range(parsed.cols) \cup {"Predicted_AQI"}
          /\ \A c \in Range(parsed.cols) :
                HasColumn(data, c) /\ Column(data, c) = Column(parsed, c)
    /\ (pc = "predict" /\ ~HasColumn(parsed, "AQI")) => features = parsed

(***************************************************************************)
(* C7.  The exported CSV has the result table's labels as its header       *)
(* line, one field per column on every line (no index field), one line     *)
(* per row, and read back it is, without Predicted_AQI, the table that     *)
(* was read from the upload.                                               *)
(***************************************************************************)
C7_RoundTrip ==
    csv.kind = "csv" =>
        /\ csv.header = data.cols
        /\ Len(csv.rows) = Len(data.rows)
        /\ \A i \in DOMAIN csv.rows : Len(csv.rows[i]) = Len(data.cols)
        /\ Drop(ReadCsv(csv), "Predicted_AQI") = parsed

(***************************************************************************)
(* C8.  Every successful prediction on the same upload with the same       *)
(* artifact gives the predictor the features the first one gave it and     *)
(* shows the result table the first one showed.                            *)
(***************************************************************************)
C8_PredictIdempotent ==
    (Shown("results") /\ prev.times # "never") =>
        /\ features = prev.features
        /\ data = prev.result

C8_Witness ==
    /\ Shown("results")
    /\ prev.times = "repeated"
    /\ Len(data.rows) > 0
    /\ HasColumn(features, "PM10")

(***************************************************************************)
(* C9.  A run calls the predictor at most once, and once it has, the one   *)
(* call got the table that was read without its AQI column: the other      *)
(* columns in their order, every row, every cell.  Once the predictions    *)
(* are assigned, Predicted_AQI at row i is the i-th value that call        *)
(* returned; on the worked example with PM2.5 + PM10 they are 70 and 110.  *)
(***************************************************************************)
C9_OneBatchInvocation ==
    /\ Len(invocations) <= 1
    /\ Invoked =>
          /\ Len(invocations) = 1
          /\ LET X == invocations[1]
             IN /\ X.cols = SelectSeq(parsed.cols, LAMBDA c : c # "AQI")
                /\ Len(X.rows) = Len(parsed.rows)
                /\ \A i \in DOMAIN X.rows : \A j \in DOMAIN X.cols :
                      X.rows[i][j] = Column(parsed, X.cols[j])[i]
    /\ Assigned =>
          /\ Len(invocations) = 1
          /\ predictions = Predict(model, invocations[1]).out
          /\ HasColumn(data, "Predicted_AQI")
          /\ \A i \in DOMAIN data.rows :
                Column(data, "Predicted_AQI")[i] = predictions[i]
    /\ (Assigned /\ uploaded = ExampleCsv /\ model = "sum") =>
          Column(data, "Predicted_AQI") = <<FloatV(70), FloatV(110)>>

C9_Witness ==
    /\ Shown("results")
    /\ uploaded = ExampleCsv
    /\ model = "sum"
    /\ data.rows[1] = <<IntV(100), IntV(30), IntV(40), FloatV(70)>>

(***************************************************************************)
(* C10.  The predictor has been invoked in a run only if a file was        *)
(* uploaded and parsed, the model was loaded and the run was started by a  *)
(* click on Predict; and the download is on the page only after the        *)
(* result table of the same run, whose prediction succeeded.               *)
(***************************************************************************)
C10_StepOrder ==
    /\ invocations # <<>> =>
          /\ uploaded.kind = "csv"
          /\ parsed.present
          /\ model \in Predictors
          /\ clicked
          /\ Shown("preview")
          /\ Shown("button")
    /\ Shown("download") =>
          /\ Shown("results")
          /\ Pos("results") < Pos("download")
          /\ clicked
          /\ Len(invocations) = 1
          /\ ~Shown("prediction_error")
          /\ HasColumn(data, "Predicted_AQI")
          /\ csv.kind = "csv"

C10_Witness ==
    /\ pc = "idle"
    /\ outcome = "done"
    /\ Shown("download")

====
